---- MODULE Spec2Model ----
(***************************************************************************)
(* Model of the analysis pipelines of runaway-coach.                       *)
(*                                                                         *)
(* Two LangGraph workflows are modelled from their source:                 *)
(*   "runner"   : RunnerAnalysisWorkflow                                   *)
(*                (core/workflows/runner_analysis_workflow.py)             *)
(*   "enhanced" : EnhancedRunnerAnalysisWorkflow                           *)
(*                (core/workflows/enhanced_runner_analysis_workflow.py)    *)
(*                                                                         *)
(* Both declare their state as a plain TypedDict (no Annotated reducer),   *)
(* so every state key is a last-value channel of the compiled graph: a     *)
(* key accepts at most one write per superstep, and a superstep in which   *)
(* two nodes write the same key ends the run with InvalidUpdateError.      *)
(* Every node function returns the whole state dict it was given, so a     *)
(* node writes every key.  The lists completed_steps / errors and the dict *)
(* processing_times are mutated in place by the nodes; every task of a run *)
(* holds a reference to the same object, which is modelled as one heap     *)
(* variable per object.                                                    *)
(*                                                                         *)
(* The three estimator agents (core/agents/training_load_agent.py,         *)
(* vo2max_estimation_agent.py, weather_context_agent.py) are modelled as   *)
(* operators in fixed-point arithmetic.  Each agent has a specification of *)
(* its own (TrainingLoadSpec, VO2MaxSpec, WeatherSpec) whose initial       *)
(* states draw a method and its arguments and whose actions apply the      *)
(* method.  ComprehensiveSpec models the route handler that gathers the    *)
(* three analyses (api/routes/quick_wins.py).                              *)
(***************************************************************************)
EXTENDS Integers, Sequences, FiniteSets, TLC

VARIABLES
    wf,               \* which workflow object analyze_runner is called on
    phase,            \* "constructed" | "running" | "returned" | "raised"
    chan,             \* channel values of the compiled graph: key -> value
    active,           \* nodes of the current superstep
    pc,               \* per node: "idle" | "pending" | "running" | "done"
    writes,           \* per node: the state dict it returned (key -> value)
    outcome,          \* per node: how the body of its try block ended
    invoked,          \* per node: number of invocations of its function
    now,              \* time.time()
    start_time,       \* per node: start_time local of its invocation
                      \* (0 again once the invocation has returned)
    completed_steps,  \* the list object state["completed_steps"]
    processing_times, \* the dict object state["processing_times"]
    errors,           \* the list object state["errors"] (enhanced only)
    final_analysis,   \* the dict built by _final_synthesis_node
    result,           \* what analyze_runner returned to its caller
    today,            \* datetime.now(), in days since the epoch of the model
    call              \* the call of an estimator method under analysis:
                      \* its name, its arguments and, once it has returned,
                      \* its value

vars == <<wf, phase, chan, active, pc, writes, outcome, invoked, now,
          start_time, completed_steps, processing_times, errors,
          final_analysis, result, today, call>>

\* the variables of the three estimator agents
estimatorVars == <<today, call>>

\* the variables of the two workflows
workflowVars == <<wf, phase, chan, active, pc, writes, outcome, invoked, now,
                  start_time, completed_steps, processing_times, errors,
                  final_analysis, result>>

(***************************************************************************)
(* Bounds                                                                  *)
(***************************************************************************)
\* wall-clock ticks observed during one run
MaxTime == 1

(***************************************************************************)
(* The declared graphs                                                     *)
(***************************************************************************)
Workflows == {"runner", "enhanced"}

END == "__end__"

RunnerNodes ==
    {"performance_analysis", "goal_assessment", "pace_optimization",
     "workout_planning", "weather_context", "vo2max_estimation",
     "training_load", "final_synthesis"}

EnhancedNodes ==
    {"load_data", "performance_analysis", "goal_assessment",
     "commitment_tracking", "workout_planning", "gear_analysis",
     "final_synthesis"}

AllNodes == RunnerNodes \cup EnhancedNodes

Nodes(w) == IF w = "runner" THEN RunnerNodes ELSE EnhancedNodes

EntryPoint(w) == IF w = "runner" THEN "performance_analysis" ELSE "load_data"

\* RunnerEdges with one more edge, from the entry point straight to the
\* convergence node
RunnerEdgesShortcut ==
    {<<"performance_analysis", "weather_context">>,
     <<"performance_analysis", "vo2max_estimation">>,
     <<"performance_analysis", "training_load">>,
     <<"performance_analysis", "goal_assessment">>,
     <<"performance_analysis", "pace_optimization">>,
     <<"weather_context", "pace_optimization">>,
     <<"vo2max_estimation", "pace_optimization">>,
     <<"training_load", "pace_optimization">>,
     <<"goal_assessment", "pace_optimization">>,
     <<"pace_optimization", "workout_planning">>,
     <<"workout_planning", "final_synthesis">>,
     <<"final_synthesis", "__end__">>}

RunnerEdges ==
    {<<"performance_analysis", "weather_context">>,
     <<"performance_analysis", "vo2max_estimation">>,
     <<"performance_analysis", "training_load">>,
     <<"performance_analysis", "goal_assessment">>,
     <<"weather_context", "pace_optimization">>,
     <<"vo2max_estimation", "pace_optimization">>,
     <<"training_load", "pace_optimization">>,
     <<"goal_assessment", "pace_optimization">>,
     <<"pace_optimization", "workout_planning">>,
     <<"workout_planning", "final_synthesis">>,
     <<"final_synthesis", END>>}

EnhancedEdges ==
    {<<"load_data", "performance_analysis">>,
     <<"performance_analysis", "goal_assessment">>,
     <<"goal_assessment", "commitment_tracking">>,
     <<"commitment_tracking", "workout_planning">>,
     <<"workout_planning", "gear_analysis">>,
     <<"gear_analysis", "final_synthesis">>,
     <<"final_synthesis", END>>}

Edges(w) == IF w = "runner" THEN RunnerEdges ELSE EnhancedEdges

\* the declared dependencies of a node: the sources of its incoming edges
DependsOn(w, n) == {m \in Nodes(w) : <<m, n>> \in Edges(w)}

(***************************************************************************)
(* The state schemas                                                       *)
(***************************************************************************)
RunnerAnalysisState ==
    {"user_id", "activities", "goals", "profile",
     "performance_analysis", "goal_assessment", "pace_optimization",
     "workout_recommendations", "weather_context", "vo2max_estimate",
     "training_load", "final_analysis",
     "current_step", "completed_steps", "processing_times"}

EnhancedRunnerAnalysisState ==
    {"athlete_id", "athlete", "stats", "activities", "running_goals", "gear",
     "performance_analysis", "goal_assessment", "workout_plan",
     "gear_health", "commitment_tracking", "final_analysis",
     "current_step", "completed_steps", "processing_times", "errors"}

Keys(w) == IF w = "runner" THEN RunnerAnalysisState
                           ELSE EnhancedRunnerAnalysisState

\* the state key a node stores its analysis under
ResultKey(w, n) ==
    IF w = "runner"
    THEN CASE n = "performance_analysis" -> "performance_analysis"
           [] n = "goal_assessment"      -> "goal_assessment"
           [] n = "pace_optimization"    -> "pace_optimization"
           [] n = "workout_planning"     -> "workout_recommendations"
           [] n = "weather_context"      -> "weather_context"
           [] n = "vo2max_estimation"    -> "vo2max_estimate"
           [] n = "training_load"        -> "training_load"
           [] OTHER                      -> "final_analysis"
    ELSE CASE n = "load_data"            -> "athlete"
           [] n = "performance_analysis" -> "performance_analysis"
           [] n = "goal_assessment"      -> "goal_assessment"
           [] n = "commitment_tracking"  -> "commitment_tracking"
           [] n = "workout_planning"     -> "workout_plan"
           [] n = "gear_analysis"        -> "gear_health"
           [] OTHER                      -> "final_analysis"

\* Values of a state key:
\*   "in"       an input of the run
\*   "empty"    {} / [] / None, as analyze_runner initialises it
\*   "ok"       the analysis of a stage whose agent call succeeded
\*   "fallback" the analysis of a stage whose agent swallowed a failed
\*              collaborator call and returned its fallback value
\*   "error"    {"error": str(e)}
\*   "ref"      a reference to the list / dict object of that name
\*   else       a step name (current_step)
RunnerInitialState ==
    [k \in RunnerAnalysisState |->
        CASE k \in {"user_id", "activities", "goals", "profile"} -> "in"
          [] k = "current_step" -> "initializing"
          [] k \in {"completed_steps", "processing_times"} -> "ref"
          [] OTHER -> "empty"]

EnhancedInitialState ==
    [k \in EnhancedRunnerAnalysisState |->
        CASE k = "athlete_id" -> "in"
          [] k = "current_step" -> "initializing"
          [] k \in {"completed_steps", "processing_times", "errors"} -> "ref"
          [] OTHER -> "empty"]

InitialState(w) == IF w = "runner" THEN RunnerInitialState
                                   ELSE EnhancedInitialState

NoWrites == [k \in {} |-> "empty"]
NoReport == [built |-> FALSE, view |-> NoWrites, total |-> 0]

NoResult == [present |-> FALSE]

\* no estimator method has been called
NoCall == [fn |-> "none", done |-> FALSE]

(***************************************************************************)
(* The node functions                                                      *)
(***************************************************************************)
\* Outcomes of node functions that call their agent whatever the state
\* holds
OutcomesUnchecked(w, n, st) == {"ok", "fallback", "raised"}

\* How the try block of a node can end:
\*   "ok"       the agent call and the mapping of its value succeeded
\*   "fallback" a collaborator call inside the agent failed (or its input
\*              was insufficient), the agent swallowed that and returned
\*              its fallback value, and the node took the success path
\*   "raised"   an exception reached the node's except clause
\* _final_synthesis_node has no try block and nothing in it raises.  The
\* enhanced _performance_analysis_node raises ValueError itself when the
\* athlete or the stats are missing.
Outcomes(w, n, st) ==
    IF n = "final_synthesis" THEN {"ok"}
    ELSE IF w = "runner" /\ n \in {"pace_optimization", "workout_planning"}
    THEN {"ok", "raised"}
    ELSE IF w = "enhanced" /\ n = "performance_analysis"
            /\ (st["athlete"] = "empty" \/ st["stats"] = "empty")
    THEN {"raised"}
    ELSE {"ok", "fallback", "raised"}

\* state.get(key, {}).get(sub, {}) of a stage result: the sub-entry of a
\* successful analysis, and the default for {} and for {"error": ...}
GetSub(v) == IF v \in {"ok", "fallback"} THEN v ELSE "empty"

RECURSIVE SumValues(_)
\* sum(d.values()) of a dict object
SumValues(d) ==
    IF DOMAIN d = {} THEN 0
    ELSE LET k == CHOOSE x \in DOMAIN d : TRUE
         IN d[k] + SumValues([j \in DOMAIN d \ {k} |-> d[j]])

\* d[k] = v on a dict object
DictSet(d, k, v) == [j \in DOMAIN d \cup {k} |-> IF j = k THEN v ELSE d[j]]

\* the value "time.time() - start_time" a node stores on its success path
Elapsed(n) == now - start_time[n]

\* the body of state["final_analysis"] of RunnerAnalysisWorkflow
RunnerFinalView(st) ==
    [performance_metrics  |-> GetSub(st["performance_analysis"]),
     goal_assessments     |-> GetSub(st["goal_assessment"]),
     pace_recommendations |-> GetSub(st["pace_optimization"]),
     workout_plan         |-> st["workout_recommendations"],
     weather_context      |-> st["weather_context"],
     vo2max_estimate      |-> st["vo2max_estimate"],
     training_load        |-> st["training_load"]]

\* the body of state["final_analysis"] of EnhancedRunnerAnalysisWorkflow
EnhancedFinalView(st) ==
    [athlete     |-> st["athlete"],
     stats       |-> st["stats"],
     performance |-> st["performance_analysis"],
     goals       |-> st["goal_assessment"],
     commitments |-> st["commitment_tracking"],
     workouts    |-> st["workout_plan"],
     gear_health |-> st["gear_health"]]

FinalView(w, st) == IF w = "runner" THEN RunnerFinalView(st)
                                    ELSE EnhancedFinalView(st)

\* the dict a node returns after its success path
SuccessState(w, n, o, st) ==
    IF w = "enhanced" /\ n = "load_data"
    THEN [k \in DOMAIN st |->
            CASE k \in {"athlete", "stats"} ->
                     IF o = "ok" THEN "ok" ELSE "empty"
              [] k \in {"activities", "running_goals", "gear"} ->
                     IF o = "ok" THEN "ok" ELSE "empty"
              [] k = "current_step" -> n
              [] OTHER -> st[k]]
    ELSE [st EXCEPT ![ResultKey(w, n)] = o, !["current_step"] = n]

\* the dict a node returns after its except clause
FailureState(w, n, st) ==
    IF w = "enhanced" /\ n = "load_data" THEN st
    ELSE IF w = "enhanced" /\ n = "workout_planning"
    THEN [st EXCEPT !["workout_plan"] = "empty"]
    ELSE [st EXCEPT ![ResultKey(w, n)] = "error"]

\* RecordsStep of a node that lists itself whether or not its try block
\* raised
RecordsStepAlways(w, n, o) == TRUE

\* whether a node lists itself in state["completed_steps"]: the last
\* statements of its try block do, its except clause does not.  The two
\* entry nodes store "old list + [name]", a new list the later nodes then
\* append to in place
RecordsStep(w, n, o) == o \in {"ok", "fallback"}

\* whether the success path of a node stores its duration
RecordsDuration(w, n, o) == o \in {"ok", "fallback"}

\* RecordsError with the except clause of workout_planning, the one that
\* stores [] instead of {"error": ...}, not appending to state["errors"]
RecordsErrorButWorkout(w, n, o) ==
    w = "enhanced" /\ o = "raised" /\ n # "workout_planning"

\* whether the except clause of a node appends to state["errors"]
RecordsError(w, n, o) == w = "enhanced" /\ o = "raised"

(***************************************************************************)
(* The compiled graph (Pregel supersteps over last-value channels)         *)
(***************************************************************************)
\* the nodes of the current superstep that wrote key k
Writers(k) == {n \in active : k \in DOMAIN writes[n]}

\* LastValue.update: a key takes at most one value per superstep
CanUpdate(ws) == Cardinality(ws) <= 1

\* the nodes triggered by the nodes that ran in this superstep
NextActive(w, ran) ==
    {m \in Nodes(w) : \E n \in ran : <<n, m>> \in Edges(w)}

(***************************************************************************)
(* Initial state: the workflow object is constructed and compiled          *)
(***************************************************************************)
\* both workflow objects as their constructors leave them
Constructed ==
    /\ wf \in Workflows
    /\ phase = "constructed"
    /\ chan = InitialState(wf)
    /\ active = {}
    /\ pc = [n \in AllNodes |-> "idle"]
    /\ writes = [n \in AllNodes |-> NoWrites]
    /\ outcome = [n \in AllNodes |-> "none"]
    /\ invoked = [n \in AllNodes |-> 0]
    /\ now = 0
    /\ start_time = [n \in AllNodes |-> 0]
    /\ completed_steps = <<>>
    /\ processing_times = [n \in {} |-> 0]
    /\ errors = <<>>
    /\ final_analysis = NoReport
    /\ result = NoResult

Init ==
    /\ Constructed
    /\ today = 0
    /\ call = NoCall

(***************************************************************************)
(* Actions                                                                 *)
(***************************************************************************)
\* analyze_runner builds the initial state and calls app.ainvoke, which
\* schedules the entry point as the first superstep
AnalyzeRunner ==
    /\ phase = "constructed"
    /\ phase' = "running"
    /\ chan' = InitialState(wf)
    /\ active' = {EntryPoint(wf)}
    /\ pc' = [pc EXCEPT ![EntryPoint(wf)] = "pending"]
    /\ UNCHANGED <<wf, writes, outcome, invoked, now, start_time,
                   completed_steps, processing_times, errors,
                   final_analysis, result>>
    /\ UNCHANGED estimatorVars

\* wall-clock time passes
Tick ==
    /\ phase = "running"
    /\ now < MaxTime
    /\ now' = now + 1
    /\ UNCHANGED <<wf, phase, chan, active, pc, writes, outcome, invoked,
                   start_time, completed_steps, processing_times, errors,
                   final_analysis, result>>
    /\ UNCHANGED estimatorVars

\* a deadline of the run, in clock ticks, as the caller may have in mind
Deadline == 0

\* MayLaunch of an executor that launches nothing after the deadline
MayLaunchBeforeDeadline(n) ==
    /\ phase = "running"
    /\ n \in active
    /\ pc[n] = "pending"
    /\ now <= Deadline

\* whether the executor may launch node n now
MayLaunch(n) ==
    /\ phase = "running"
    /\ n \in active
    /\ pc[n] = "pending"

\* a scheduled node function is entered: it reads the clock and runs up to
\* the await of its agent call
StartNode(n) ==
    /\ MayLaunch(n)
    /\ pc' = [pc EXCEPT ![n] = "running"]
    /\ start_time' = [start_time EXCEPT ![n] = now]
    /\ invoked' = [invoked EXCEPT ![n] = @ + 1]
    /\ UNCHANGED <<wf, phase, chan, active, writes, outcome, now,
                   completed_steps, processing_times, errors,
                   final_analysis, result>>
    /\ UNCHANGED estimatorVars

\* the agent call of a node returns or raises, and the node runs to its
\* "return state"
FinishNode(n, o) ==
    /\ phase = "running"
    /\ pc[n] = "running"
    /\ n # "final_synthesis"
    /\ o \in Outcomes(wf, n, chan)
    /\ pc' = [pc EXCEPT ![n] = "done"]
    /\ outcome' = [outcome EXCEPT ![n] = o]
    /\ writes' = [writes EXCEPT ![n] =
                    IF o = "raised" THEN FailureState(wf, n, chan)
                                    ELSE SuccessState(wf, n, o, chan)]
    /\ completed_steps' =
          IF RecordsStep(wf, n, o) THEN Append(completed_steps, n)
                                   ELSE completed_steps
    /\ processing_times' =
          IF RecordsDuration(wf, n, o)
          THEN DictSet(processing_times, n, Elapsed(n))
          ELSE processing_times
    /\ errors' =
          IF RecordsError(wf, n, o) THEN Append(errors, [step |-> n])
                                    ELSE errors
    /\ start_time' = [start_time EXCEPT ![n] = 0]
    /\ UNCHANGED <<wf, phase, chan, active, invoked, now,
                   final_analysis, result>>
    /\ UNCHANGED estimatorVars

\* _final_synthesis_node: builds final_analysis from the state it was given,
\* then appends itself to completed_steps and stores its duration
FinalSynthesis ==
    /\ phase = "running"
    /\ pc["final_synthesis"] = "running"
    /\ pc' = [pc EXCEPT !["final_synthesis"] = "done"]
    /\ outcome' = [outcome EXCEPT !["final_synthesis"] = "ok"]
    /\ final_analysis' = [built |-> TRUE,
                          view  |-> FinalView(wf, chan),
                          total |-> SumValues(processing_times)]
    /\ writes' = [writes EXCEPT !["final_synthesis"] =
                    [chan EXCEPT !["final_analysis"] = "ref",
                                 !["current_step"] = "completed"]]
    /\ completed_steps' = Append(completed_steps, "final_synthesis")
    /\ processing_times' =
          DictSet(processing_times, "final_synthesis",
                  Elapsed("final_synthesis"))
    /\ start_time' = [start_time EXCEPT !["final_synthesis"] = 0]
    /\ UNCHANGED <<wf, phase, chan, active, invoked, now, errors, result>>
    /\ UNCHANGED estimatorVars

\* the superstep ends when every node of it has returned: each key takes
\* the value its single writer returned, or the run ends with
\* InvalidUpdateError, which ainvoke and analyze_runner let through
ApplyWrites ==
    /\ phase = "running"
    /\ active # {}
    /\ \A n \in active : pc[n] = "done"
    /\ IF \A k \in Keys(wf) : CanUpdate(Writers(k))
       THEN /\ chan' = [k \in Keys(wf) |->
                          IF Writers(k) = {} THEN chan[k]
                          ELSE writes[CHOOSE n \in Writers(k) : TRUE][k]]
            /\ active' = NextActive(wf, active)
            /\ pc' = [n \in AllNodes |->
                        IF n \in NextActive(wf, active) THEN "pending"
                        ELSE "idle"]
            /\ writes' = [n \in AllNodes |-> NoWrites]
            /\ phase' = phase
       ELSE /\ phase' = "raised"
            /\ UNCHANGED <<chan, active, pc, writes>>
    /\ UNCHANGED <<wf, outcome, invoked, now, start_time, completed_steps,
                   processing_times, errors, final_analysis, result>>
    /\ UNCHANGED estimatorVars

\* no node is left to run: ainvoke returns the final state and
\* analyze_runner returns final_state["final_analysis"], whose
\* workflow_metadata holds references to the list and dict objects
Return ==
    /\ phase = "running"
    /\ active = {}
    /\ phase' = "returned"
    /\ result' = [present          |-> TRUE,
                  built            |-> final_analysis.built,
                  view             |-> final_analysis.view,
                  total_processing_time |-> final_analysis.total,
                  completed_steps  |-> completed_steps,
                  processing_times |-> processing_times,
                  errors           |-> errors]
    /\ UNCHANGED <<wf, chan, active, pc, writes, outcome, invoked, now,
                   start_time, completed_steps, processing_times, errors,
                   final_analysis>>
    /\ UNCHANGED estimatorVars

Next ==
    \/ AnalyzeRunner
    \/ Tick
    \/ \E n \in AllNodes : StartNode(n)
    \/ \E n \in AllNodes : \E o \in {"ok", "fallback", "raised"} :
          FinishNode(n, o)
    \/ FinalSynthesis
    \/ ApplyWrites
    \/ Return

Spec == Init /\ [][Next]_vars

(***************************************************************************)
(* The estimator agents (core/agents)                                      *)
(*                                                                         *)
(* The agents compute in binary floating point.  The model computes in     *)
(* fixed point: a training load and a TSS in tenths, an ACWR and an        *)
(* intensity factor in hundredths, a date in whole days.  round(x, 1) and  *)
(* round(x, 2) of the source are the roundings to these units.  None and 0 *)
(* are both read as "absent" wherever the source tests a value for truth.  *)
(***************************************************************************)
\* wall-clock days that pass after the activity list was put together
MaxDays == 2

\* activity.get(key), with 0 for a missing key and for None
Get(activity, key) == IF key \in DOMAIN activity THEN activity[key] ELSE 0

\* round(n / d) for d > 0.  A tie goes to the even neighbour; in the source
\* a tie of the reals goes whichever way the nearest double lies.
Round(n, d) ==
    LET q == n \div d
        r == n % d
    IN  IF 2 * r < d THEN q
        ELSE IF 2 * r > d THEN q + 1
        ELSE IF q % 2 = 0 THEN q ELSE q + 1

(***************************************************************************)
(* TrainingLoadAgent                                                       *)
(***************************************************************************)
ACWR_OPTIMAL_LOW == 80
ACWR_OPTIMAL_HIGH == 130
ACWR_HIGH_RISK == 150
ACWR_VERY_HIGH_RISK == 180

TSS_EASY_WEEK == 2000
TSS_HARD_WEEK == 5000
TSS_PEAK_WEEK == 7000

\* _calculate_intensity_factor(activity): the intensity factor from the
\* heart-rate percentage.  _calculate_load_by_period never passes a
\* threshold pace, so without heart-rate data the default is returned.
calculate_intensity_factor(activity) ==
    LET avg_hr == Get(activity, "average_heart_rate")
        max_hr == Get(activity, "max_heart_rate")
    IN  IF avg_hr # 0 /\ max_hr # 0
        THEN IF max_hr > 0 /\ avg_hr * 100 < 65 * max_hr THEN 55
             ELSE IF max_hr <= 0 \/ avg_hr * 100 < 75 * max_hr THEN 70
             ELSE IF avg_hr * 100 < 85 * max_hr THEN 85
             ELSE 95
        ELSE 70

\* _calculate_tss(activity, intensity_factor):
\* round(elapsed_time / 3600 * IF ** 2 * 100, 1)
calculate_tss(activity, intensity_factor) ==
    Round(Get(activity, "elapsed_time") * intensity_factor * intensity_factor,
          36000)

\* InPeriod with a chronic window that ends where the acute one begins
InPeriodUncoupled(activity, days, reference_date) ==
    /\ "activity_date" \in DOMAIN activity
    /\ activity.activity_date >= reference_date - days
    /\ (days > 7 => activity.activity_date < reference_date - 7)

\* "activity_date and activity_date >= reference_date - timedelta(days)"
InPeriod(activity, days, reference_date) ==
    /\ "activity_date" \in DOMAIN activity
    /\ activity.activity_date >= reference_date - days

RECURSIVE calculate_load_by_period(_, _, _)
\* _calculate_load_by_period(activities, days, reference_date)
calculate_load_by_period(activities, days, reference_date) ==
    IF activities = <<>> THEN 0
    ELSE LET activity == Head(activities)
             rest == calculate_load_by_period(Tail(activities), days,
                                              reference_date)
         IN  IF InPeriod(activity, days, reference_date)
             THEN calculate_tss(activity,
                                calculate_intensity_factor(activity)) + rest
             ELSE rest

\* _calculate_acwr whose quotient is cut to two decimals instead of rounded
calculate_acwr_truncated(acute_load, chronic_load) ==
    IF chronic_load = 0 THEN 0
    ELSE (acute_load * 100) \div chronic_load

\* _calculate_acwr(acute_load, chronic_load)
calculate_acwr(acute_load, chronic_load) ==
    IF chronic_load = 0 THEN 0
    ELSE Round(acute_load * 100, chronic_load)

\* _assess_injury_risk whose optimal zone ends before ACWR_OPTIMAL_HIGH
assess_injury_risk_exclusive(acwr) ==
    IF acwr < ACWR_OPTIMAL_LOW THEN "low"
    ELSE IF acwr < ACWR_OPTIMAL_HIGH THEN "low"
    ELSE IF acwr <= ACWR_HIGH_RISK THEN "moderate"
    ELSE IF acwr <= ACWR_VERY_HIGH_RISK THEN "high"
    ELSE "very_high"

\* _assess_injury_risk(acwr)
assess_injury_risk(acwr) ==
    IF acwr < ACWR_OPTIMAL_LOW THEN "low"
    ELSE IF acwr <= ACWR_OPTIMAL_HIGH THEN "low"
    ELSE IF acwr <= ACWR_HIGH_RISK THEN "moderate"
    ELSE IF acwr <= ACWR_VERY_HIGH_RISK THEN "high"
    ELSE "very_high"

\* _determine_recovery_status with the fatigue test ahead of the
\* overreaching test
determine_recovery_status_reordered(acwr, weekly_tss, recent_days) ==
    IF acwr > ACWR_VERY_HIGH_RISK THEN "overtrained"
    ELSE IF acwr > ACWR_OPTIMAL_HIGH \/ weekly_tss > TSS_PEAK_WEEK
    THEN "fatigued"
    ELSE IF acwr > ACWR_HIGH_RISK /\ weekly_tss > TSS_HARD_WEEK
    THEN "overreaching"
    ELSE IF acwr < ACWR_OPTIMAL_LOW \/ weekly_tss < TSS_EASY_WEEK
    THEN "well_recovered"
    ELSE "adequate"

\* _determine_recovery_status(acwr, weekly_tss, recent_days)
determine_recovery_status(acwr, weekly_tss, recent_days) ==
    IF acwr > ACWR_VERY_HIGH_RISK THEN "overtrained"
    ELSE IF acwr > ACWR_HIGH_RISK /\ weekly_tss > TSS_HARD_WEEK
    THEN "overreaching"
    ELSE IF acwr > ACWR_OPTIMAL_HIGH \/ weekly_tss > TSS_PEAK_WEEK
    THEN "fatigued"
    ELSE IF acwr < ACWR_OPTIMAL_LOW \/ weekly_tss < TSS_EASY_WEEK
    THEN "well_recovered"
    ELSE "adequate"

\* _determine_training_trend(acute_load, chronic_load, acwr)
determine_training_trend(acute_load, chronic_load, acwr) ==
    IF acwr > 120 THEN "ramping_up"
    ELSE IF acwr < 80
    THEN IF chronic_load < 2000 THEN "detraining" ELSE "tapering"
    ELSE "steady"

\* _assess_fitness_trend(chronic_load, load_4_weeks_ago)
assess_fitness_trend(chronic_load, load_4_weeks_ago) ==
    IF load_4_weeks_ago = 0 THEN "insufficient_data"
    ELSE IF (chronic_load - load_4_weeks_ago) * 100 > 10 * load_4_weeks_ago
    THEN "improving"
    ELSE IF (chronic_load - load_4_weeks_ago) * 100 < -10 * load_4_weeks_ago
    THEN "declining"
    ELSE "maintaining"

RECURSIVE RecentDistance(_, _, _)
\* the sum of "distance" over the activities _is_recent_activity accepts
RecentDistance(activities, days, reference_date) ==
    IF activities = <<>> THEN 0
    ELSE (IF InPeriod(Head(activities), days, reference_date)
          THEN Get(Head(activities), "distance") ELSE 0)
         + RecentDistance(Tail(activities), days, reference_date)

\* TrainingLoadAgent._create_fallback_analysis whose recovery status is
\* ADEQUATE
training_load_fallback_adequate(reference_date) ==
    [acute_load        |-> 0,
     chronic_load      |-> 0,
     acwr              |-> 0,
     weekly_tss        |-> 0,
     total_volume_km   |-> 0,
     recovery_status   |-> "adequate",
     injury_risk_level |-> "low",
     training_trend    |-> "steady",
     fitness_trend     |-> "insufficient_data",
     analysis_date     |-> reference_date]

\* TrainingLoadAgent._create_fallback_analysis(), called on the day
\* reference_date
training_load_fallback(reference_date) ==
    [acute_load        |-> 0,
     chronic_load      |-> 0,
     acwr              |-> 0,
     weekly_tss        |-> 0,
     total_volume_km   |-> 0,
     recovery_status   |-> "well_recovered",
     injury_risk_level |-> "low",
     training_trend    |-> "steady",
     fitness_trend     |-> "insufficient_data",
     analysis_date     |-> reference_date]

\* analyze_training_load(activities), called on the day reference_date:
\* the numeric and categorical fields of the TrainingLoadAnalysis it
\* returns (the recommendation texts are left out)
analyze_training_load(activities, reference_date) ==
    IF activities = <<>> THEN training_load_fallback(reference_date)
    ELSE LET acute_load ==
                 calculate_load_by_period(activities, 7, reference_date)
             chronic_load ==
                 calculate_load_by_period(activities, 28, reference_date)
             load_4_weeks_ago ==
                 calculate_load_by_period(activities, 28,
                                          reference_date - 28)
             acwr == calculate_acwr(acute_load, chronic_load)
             weekly_tss ==
                 calculate_load_by_period(activities, 7, reference_date)
         IN  [acute_load        |-> acute_load,
              chronic_load      |-> chronic_load,
              acwr              |-> acwr,
              weekly_tss        |-> weekly_tss,
              total_volume_km   |->
                  Round(RecentDistance(activities, 7, reference_date), 100),
              recovery_status   |->
                  determine_recovery_status(acwr, weekly_tss, 7),
              injury_risk_level |-> assess_injury_risk(acwr),
              training_trend    |->
                  determine_training_trend(acute_load, chronic_load, acwr),
              fitness_trend     |->
                  assess_fitness_trend(chronic_load, load_4_weeks_ago),
              analysis_date     |-> reference_date]

(***************************************************************************)
(* The calls of TrainingLoadAgent under analysis                           *)
(***************************************************************************)
\* loads, in tenths, handed to _calculate_acwr
MaxLoad == 30

\* ratios, in hundredths, handed to _assess_injury_risk and
\* _determine_recovery_status
MaxAcwr == 200

\* length of the short activity lists handed to analyze_training_load
MaxActivities == 2

\* weekly TSS values around each threshold of _determine_recovery_status
WeeklyTssSamples ==
    {0, 9000} \cup
    {t + d : t \in {TSS_EASY_WEEK, TSS_HARD_WEEK, TSS_PEAK_WEEK},
             d \in {-1, 0, 1}}

\* a run of 8 km in 40 minutes, as test_training_load_agent builds it
Run(date, elapsed_time, avg_hr) ==
    [activity_date      |-> date,
     elapsed_time       |-> elapsed_time,
     average_heart_rate |-> avg_hr,
     max_heart_rate     |-> 185,
     distance           |-> 8000]

\* n consecutive daily runs of 8 km with avgHR 150 and maxHR 185, the
\* latest on day 0: "datetime.now() - timedelta(days=i)" for i in range(n)
DailyRuns(n) == [i \in 1..n |-> Run(1 - i, 2400, 150)]

\* activities around the ends of the 7-day and the 28-day window, with and
\* without heart-rate data, and one without a date
SampleActivities ==
    {Run(d, t, h) : d \in {0, -6, -27}, t \in {2400, 7200},
                    h \in {0, 110, 150}}
    \cup {[elapsed_time |-> 2400, distance |-> 8000]}

ActivityLists ==
    UNION {[1..n -> SampleActivities] : n \in 0..MaxActivities}
    \cup {DailyRuns(28)}

\* activities handed to _calculate_tss: a Strava activity carries both
\* moving_time and elapsed_time (models/strava.py); a pause makes the
\* elapsed time the longer one; 0 stands for a missing or null field
TssActivities ==
    {[moving_time |-> m, elapsed_time |-> e] :
        m \in {0, 2400}, e \in {0, 2400, 3000}}

\* the values _calculate_intensity_factor returns
IntensityFactors == {55, 70, 85, 95}

\* the call c after it has returned v
Returned(c, v) ==
    [k \in DOMAIN c \cup {"ret"} |->
        IF k = "ret" THEN v ELSE IF k = "done" THEN TRUE ELSE c[k]]

\* the call c after an exception has left it
Raised(c) ==
    [k \in DOMAIN c \cup {"raised"} |->
        IF k = "raised" THEN TRUE ELSE c[k]]

TrainingLoadInit ==
    /\ Constructed
    /\ wf = "enhanced"
    /\ today = 0
    /\ \/ \E a \in 0..MaxLoad : \E c \in 0..MaxLoad :
             call = [fn |-> "_calculate_acwr", done |-> FALSE,
                     acute_load |-> a, chronic_load |-> c]
       \/ \E r \in 0..MaxAcwr :
             call = [fn |-> "_assess_injury_risk", done |-> FALSE,
                     acwr |-> r]
       \/ \E r \in 0..MaxAcwr : \E t \in WeeklyTssSamples :
             call = [fn |-> "_determine_recovery_status", done |-> FALSE,
                     acwr |-> r, weekly_tss |-> t]
       \/ \E l \in ActivityLists :
             call = [fn |-> "analyze_training_load", done |-> FALSE,
                     activities |-> l]
       \/ \E a \in TssActivities : \E f \in IntensityFactors :
             call = [fn |-> "_calculate_tss", done |-> FALSE,
                     activity |-> a, intensity_factor |-> f]

\* a day of wall-clock time passes
AdvanceClock ==
    /\ today < MaxDays
    /\ today' = today + 1
    /\ UNCHANGED call
    /\ UNCHANGED workflowVars

CalculateAcwr ==
    /\ call.fn = "_calculate_acwr"
    /\ ~call.done
    /\ call' = Returned(call,
                        calculate_acwr(call.acute_load, call.chronic_load))
    /\ UNCHANGED today
    /\ UNCHANGED workflowVars

AssessInjuryRisk ==
    /\ call.fn = "_assess_injury_risk"
    /\ ~call.done
    /\ call' = Returned(call, assess_injury_risk(call.acwr))
    /\ UNCHANGED today
    /\ UNCHANGED workflowVars

DetermineRecoveryStatus ==
    /\ call.fn = "_determine_recovery_status"
    /\ ~call.done
    /\ call' = Returned(call,
                        determine_recovery_status(call.acwr,
                                                  call.weekly_tss, 7))
    /\ UNCHANGED today
    /\ UNCHANGED workflowVars

CalculateTss ==
    /\ call.fn = "_calculate_tss"
    /\ ~call.done
    /\ call' = Returned(call,
                        calculate_tss(call.activity, call.intensity_factor))
    /\ UNCHANGED today
    /\ UNCHANGED workflowVars

\* analyze_training_load is called, for the first time or again, on the
\* same activity list; it reads the clock itself
AnalyzeTrainingLoad ==
    /\ call.fn = "analyze_training_load"
    /\ call' = Returned(call, analyze_training_load(call.activities, today))
    /\ UNCHANGED today
    /\ UNCHANGED workflowVars

TrainingLoadNext ==
    \/ AdvanceClock
    \/ CalculateAcwr
    \/ AssessInjuryRisk
    \/ DetermineRecoveryStatus
    \/ CalculateTss
    \/ AnalyzeTrainingLoad

TrainingLoadSpec == TrainingLoadInit /\ [][TrainingLoadNext]_vars

(***************************************************************************)
(* VO2MaxEstimationAgent                                                   *)
(*                                                                         *)
(* A VO2max in hundredths of ml/kg/min, a velocity in tenths of m/min, a   *)
(* distance in metres (decimetres where the half marathon is involved), a  *)
(* time in seconds, a data quality score in hundredths.                    *)
(***************************************************************************)
\* a * b / c rounded down, for c > 0, without forming a * b
MulDiv(a, b, c) == (a \div c) * b + ((a % c) * b) \div c

\* max(20.0, min(85.0, x))
Clamp(x) == IF x > 8500 THEN 8500 ELSE IF x < 2000 THEN 2000 ELSE x

\* RACE_DISTANCES, in insertion order, in decimetres
RaceNames == <<"5K", "10K", "Half Marathon", "Marathon">>

RACE_DISTANCES ==
    [name \in {"5K", "10K", "Half Marathon", "Marathon"} |->
        CASE name = "5K" -> 50000
          [] name = "10K" -> 100000
          [] name = "Half Marathon" -> 210975
          [] name = "Marathon" -> 421950]

\* -4.60 + 0.182258 * v + 0.000104 * v ** 2 for the velocity v10 / 10
DanielsVo2(v10) ==
    LET q == v10 \div 1000
        r == v10 % 1000
    IN  -460 + MulDiv(v10, 1822, 1000) + MulDiv(v10, 58, 100000)
        + q * q * 104 + MulDiv(q * r, 208, 1000)
        + MulDiv(r * r, 104, 1000000)

\* the share of VO2max, in hundredths, a race of distance_meters is run at
IntensityFraction(distance_meters) ==
    IF distance_meters >= 40000 THEN 85
    ELSE IF distance_meters >= 20000 THEN 88
    ELSE IF distance_meters >= 10000 THEN 92
    ELSE IF distance_meters >= 5000 THEN 95
    ELSE 98

\* _estimate_vo2max_from_race_time(distance_meters, time_seconds), for
\* time_seconds >= 0; 0 stands for the None of the except clause
estimate_vo2max_from_race_time(distance_meters, time_seconds) ==
    IF time_seconds = 0 THEN 0
    ELSE Clamp(MulDiv(DanielsVo2((distance_meters * 600) \div time_seconds),
                      100, IntensityFraction(distance_meters)))

\* _estimate_vo2max_from_power without the bounds of its return statement
estimate_vo2max_from_power_unbounded(watts_per_kg) ==
    MulDiv(MulDiv(watts_per_kg, 1263, 100), 96, 100)

\* _estimate_vo2max_from_power(watts_per_kg), watts_per_kg in hundredths
estimate_vo2max_from_power(watts_per_kg) ==
    Clamp(MulDiv(MulDiv(watts_per_kg, 1263, 100), 96, 100))

RECURSIVE MaxOf(_, _)
\* max(a.get(key) for the activities whose value is not None or 0), or 0
MaxOf(activities, key) ==
    IF activities = <<>> THEN 0
    ELSE LET v == Get(Head(activities), key)
             m == MaxOf(Tail(activities), key)
         IN  IF v = 0 THEN m
             ELSE IF m = 0 \/ v > m THEN v ELSE m

\* _estimate_vo2max_from_heart_rate(activities); 0 stands for None
estimate_vo2max_from_heart_rate(activities) ==
    LET hr_max == MaxOf(activities, "max_heart_rate")
    IN  IF hr_max = 0 THEN 0
        ELSE Clamp(MulDiv(hr_max, 1530, 65))

\* the race whose +-10% band holds distance_meters, or "none"
RaceOf(distance_meters) ==
    LET matches == {i \in DOMAIN RaceNames :
                      /\ 9 * RACE_DISTANCES[RaceNames[i]]
                            <= 100 * distance_meters
                      /\ 100 * distance_meters
                            <= 11 * RACE_DISTANCES[RaceNames[i]]}
    IN  IF matches = {} THEN "none"
        ELSE RaceNames[CHOOSE i \in matches : TRUE]

RECURSIVE BestFrom(_, _)
\* the loop of _find_best_performances over the rest of the activities,
\* best being the values of best_performances in insertion order
BestFrom(activities, best) ==
    IF activities = <<>> THEN best
    ELSE LET distance == Get(Head(activities), "distance")
             elapsed_time == Get(Head(activities), "elapsed_time")
             race_name == RaceOf(distance)
             at == {i \in DOMAIN best : best[i].race = race_name}
             perf == [race     |-> race_name,
                      distance |-> distance,
                      time     |-> elapsed_time]
         IN  IF distance = 0 \/ elapsed_time = 0 \/ race_name = "none"
             THEN BestFrom(Tail(activities), best)
             ELSE IF at = {}
             THEN BestFrom(Tail(activities), Append(best, perf))
             ELSE IF elapsed_time < best[CHOOSE i \in at : TRUE].time
             THEN BestFrom(Tail(activities),
                           [best EXCEPT ![CHOOSE i \in at : TRUE] = perf])
             ELSE BestFrom(Tail(activities), best)

\* _find_best_performances(activities)
find_best_performances(activities) == BestFrom(activities, <<>>)

RECURSIVE SumOf(_, _)
\* sum(a[key] for a in activities if a.get(key))
SumOf(activities, key) ==
    IF activities = <<>> THEN 0
    ELSE Get(Head(activities), key) + SumOf(Tail(activities), key)

\* the number of activities with a value for key
CountOf(activities, key) ==
    Cardinality({i \in DOMAIN activities : Get(activities[i], key) # 0})

\* the (estimate, method) pairs estimate_vo2_max collects, in its order
Vo2Estimates(activities) ==
    LET best == find_best_performances(activities)
        race == [i \in DOMAIN best |->
                    [vo2 |-> estimate_vo2max_from_race_time(
                                 best[i].distance, best[i].time),
                     method |-> "race_performance"]]
        n == CountOf(activities, "average_watts")
        power == IF n = 0 THEN <<>>
                 ELSE <<[vo2 |-> estimate_vo2max_from_power(
                                   (SumOf(activities, "average_watts") * 100)
                                       \div (n * 70)),
                         method |-> "power_data"]>>
        vo2_hr == estimate_vo2max_from_heart_rate(activities)
        heart == IF vo2_hr = 0 THEN <<>>
                 ELSE <<[vo2 |-> vo2_hr, method |-> "heart_rate"]>>
    IN  SelectSeq(race, LAMBDA e : e.vo2 # 0) \o power \o heart

\* the weight of an estimate
Weight(e) == IF e.method = "race_performance" THEN 2 ELSE 1

RECURSIVE WeightedSum(_)
WeightedSum(estimates) ==
    IF estimates = <<>> THEN 0
    ELSE Head(estimates).vo2 * Weight(Head(estimates))
         + WeightedSum(Tail(estimates))

RECURSIVE SumWeights(_)
SumWeights(estimates) ==
    IF estimates = <<>> THEN 0
    ELSE Weight(Head(estimates)) + SumWeights(Tail(estimates))

\* _categorize_fitness of the VO2max total / weights
categorize_fitness(total, weights) ==
    IF 6500 * weights <= total /\ total < 8500 * weights THEN "elite"
    ELSE IF 5500 * weights <= total /\ total < 6500 * weights
    THEN "excellent"
    ELSE IF 4500 * weights <= total /\ total < 5500 * weights THEN "good"
    ELSE IF 3500 * weights <= total /\ total < 4500 * weights
    THEN "average"
    ELSE IF 2500 * weights <= total /\ total < 3500 * weights
    THEN "below_average"
    ELSE "average"

\* _calculate_confidence(estimation_method, recent_activities, has_power,
\* has_hr)
calculate_confidence(estimation_method, recent_activities, has_power, has_hr) ==
    LET method == IF estimation_method = "race_performance" THEN 30
                  ELSE IF estimation_method = "power_data" /\ has_power
                  THEN 25
                  ELSE IF estimation_method = "heart_rate" /\ has_hr THEN 15
                  ELSE 0
        volume == IF recent_activities >= 20 THEN 15
                  ELSE IF recent_activities >= 10 THEN 10
                  ELSE 0
        sources == IF has_power /\ has_hr THEN 5 ELSE 0
        confidence == 50 + method + volume + sources
    IN  IF confidence > 100 THEN 100 ELSE confidence

\* _create_fallback_estimate()
vo2_fallback ==
    [vo2_max               |-> 4000,
     vo2_estimates         |-> <<>>,
     estimation_method     |-> "default",
     current_fitness_level |-> "average",
     data_quality_score    |-> 30]

\* estimate_vo2_max(activities): the estimate, the candidates it was
\* combined from, the method, the fitness level and the data quality of
\* the VO2MaxEstimate it returns (the race predictions are modelled by
\* predict_race_time_riegel; texts and analysis_date are left out)
estimate_vo2_max(activities) ==
    LET estimates == Vo2Estimates(activities)
        total == WeightedSum(estimates)
        weights == SumWeights(estimates)
    IN  IF activities = <<>> \/ estimates = <<>> THEN vo2_fallback
        ELSE [vo2_max               |-> 10 * Round(total, 10 * weights),
              vo2_estimates         |->
                  [i \in DOMAIN estimates |-> estimates[i].vo2],
              estimation_method     |-> estimates[1].method,
              current_fitness_level |-> categorize_fitness(total, weights),
              data_quality_score    |->
                  calculate_confidence(
                      estimates[1].method, Len(activities),
                      CountOf(activities, "average_watts") > 0,
                      CountOf(activities, "average_heart_rate") > 0)]

\* (target / known) ** 1.06 in ten-thousandths, rounded down, for the
\* distances (in decimetres) of RiegelDistances
RiegelFactor ==
    (50000 :> (50000 :> 10000 @@ 50010 :> 10002 @@ 100000 :> 20849
               @@ 210975 :> 46001 @@ 421950 :> 95911))
    @@ (50010 :> (50000 :> 9997 @@ 50010 :> 10000 @@ 100000 :> 20844
                  @@ 210975 :> 45992 @@ 421950 :> 95890))
    @@ (100000 :> (50000 :> 4796 @@ 50010 :> 4797 @@ 100000 :> 10000
                   @@ 210975 :> 22064 @@ 421950 :> 46001))
    @@ (210975 :> (50000 :> 2173 @@ 50010 :> 2174 @@ 100000 :> 4532
                   @@ 210975 :> 10000 @@ 421950 :> 20849))
    @@ (421950 :> (50000 :> 1042 @@ 50010 :> 1042 @@ 100000 :> 2173
                   @@ 210975 :> 4796 @@ 421950 :> 10000))

\* 5 km, 5.001 km, 10 km, half marathon and marathon, in decimetres
RiegelDistances == DOMAIN RiegelFactor

\* _predict_race_time_riegel with the ratio of the distances inverted
predict_race_time_riegel_inverted(known_distance, known_time, target_distance) ==
    MulDiv(known_time, RiegelFactor[target_distance][known_distance], 10000)

\* _predict_race_time_riegel(known_distance_m, known_time_s,
\* target_distance_m): int(known_time_s * (target / known) ** 1.06), for
\* known_time_s >= 0
predict_race_time_riegel(known_distance, known_time, target_distance) ==
    MulDiv(known_time, RiegelFactor[known_distance][target_distance], 10000)

(***************************************************************************)
(* The calls of VO2MaxEstimationAgent under analysis                       *)
(***************************************************************************)
\* the shortest known times, in seconds, handed to
\* _predict_race_time_riegel
MaxKnownTime == 3

KnownTimes == (1..MaxKnownTime) \cup {1500, 3000, 12600}

\* (distance, elapsed_time) of an activity: no race distance, no time, and
\* races from 5 km in 2 s to 10 km in 200000 s, one of them 4.6 km long,
\* inside the band of the 5K and below its nominal distance
Performances ==
    {<<1000, 1320>>, <<5000, 0>>, <<5000, 2>>, <<5000, 1320>>,
     <<4600, 1320>>, <<10000, 200000>>}

\* activities with and without power and heart rate; an average of
\* 1000000 W and a maximal heart rate of 100000 are the extremes
Vo2Activities ==
    {[distance           |-> p[1],
      elapsed_time       |-> p[2],
      average_watts      |-> w,
      max_heart_rate     |-> h,
      average_heart_rate |-> IF h = 185 THEN 165 ELSE 0] :
        p \in Performances, w \in {0, 280, 1000000},
        h \in {0, 185, 100000}}

Vo2ActivityLists == UNION {[1..n -> Vo2Activities] : n \in 0..MaxActivities}

VO2MaxInit ==
    /\ Constructed
    /\ wf = "enhanced"
    /\ today = 0
    /\ \/ \E l \in Vo2ActivityLists :
             call = [fn |-> "estimate_vo2_max", done |-> FALSE,
                     activities |-> l]
       \/ \E k \in RiegelDistances : \E t \in KnownTimes :
          \E d2 \in RiegelDistances : \E d3 \in RiegelDistances :
             /\ d2 < d3
             /\ call = [fn |-> "_predict_race_time_riegel", done |-> FALSE,
                        known_distance |-> k, known_time |-> t,
                        d2 |-> d2, d3 |-> d3]

EstimateVo2Max ==
    /\ call.fn = "estimate_vo2_max"
    /\ ~call.done
    /\ call' = Returned(call, estimate_vo2_max(call.activities))
    /\ UNCHANGED today
    /\ UNCHANGED workflowVars

\* the prediction is made for both target distances of the call
PredictRaceTimeRiegel ==
    /\ call.fn = "_predict_race_time_riegel"
    /\ ~call.done
    /\ call' = Returned(call,
          [d2 |-> predict_race_time_riegel(call.known_distance,
                                           call.known_time, call.d2),
           d3 |-> predict_race_time_riegel(call.known_distance,
                                           call.known_time, call.d3)])
    /\ UNCHANGED today
    /\ UNCHANGED workflowVars

VO2MaxNext ==
    \/ EstimateVo2Max
    \/ PredictRaceTimeRiegel

VO2MaxSpec == VO2MaxInit /\ [][VO2MaxNext]_vars

(***************************************************************************)
(* WeatherContextAgent                                                     *)
(*                                                                         *)
(* A temperature in tenths of a degree Celsius (a heat index in            *)
(* hundredths), a humidity in tenths of a percent, a pace degradation in   *)
(* tenths of a second per mile.  An average                                *)
(* is rounded to tenths; the temperatures and humidities of the inputs are *)
(* whole numbers, so that no comparison of an average with a whole-number  *)
(* threshold is changed by that.                                           *)
(***************************************************************************)
IDEAL_TEMP_LOW == 100
IDEAL_TEMP_HIGH == 200
HEAT_STRESS_TEMP == 250
HIGH_HUMIDITY == 700

\* x * (c1 + c2 / 10000) / 10000: the product of x and a coefficient given
\* to eight decimals
Scaled(x, c1, c2) == MulDiv(x, c1, 10000) + MulDiv(x, c2, 10000) \div 10000

\* _calculate_heat_index(temp_c, humidity): the polynomial is evaluated in
\* hundredths of a degree Fahrenheit and the heat index returned in
\* hundredths of a degree Celsius (to within 0.2 degrees of the
\* floating-point value)
calculate_heat_index(temp_c, humidity) ==
    LET temp_f == (temp_c * 9) \div 5 + 320
        tth == MulDiv(temp_f * temp_f, humidity, 1000)
        hi == -4238 + Scaled(temp_f, 204901, 5230)
              + 101 * humidity + Scaled(humidity, 4333, 1270)
              - Scaled(temp_f * humidity, 2247, 5541)
              - Scaled(temp_f * temp_f, 68, 3783)
              - Scaled(humidity * humidity, 548, 1717)
              + Scaled(tth, 1228, 7400)
              + Scaled(MulDiv(humidity * humidity, temp_f, 1000), 852, 8200)
              - Scaled(MulDiv(tth, humidity, 1000), 199, 0)
    IN  IF temp_c * 9 < 2400 THEN temp_c * 10
        ELSE Round((hi - 3200) * 5, 9)

\* _estimate_pace_degradation without the three threshold tests
estimate_pace_degradation_signed(temperature, humidity, heat_index) ==
    Round((temperature - HEAT_STRESS_TEMP) * 40
          + (humidity - HIGH_HUMIDITY) * 5
          + (heat_index - 3000) * 2,
          10)

\* _estimate_pace_degradation(temperature, humidity, heat_index), the heat
\* index in hundredths: round(degradation, 1)
estimate_pace_degradation(temperature, humidity, heat_index) ==
    Round((IF temperature > HEAT_STRESS_TEMP
           THEN (temperature - HEAT_STRESS_TEMP) * 40 ELSE 0)
          + (IF humidity > HIGH_HUMIDITY
             THEN (humidity - HIGH_HUMIDITY) * 5 ELSE 0)
          + (IF heat_index > 3000 THEN (heat_index - 3000) * 2 ELSE 0),
          10)

\* _determine_weather_impact whose SEVERE level starts above 30 degrees
determine_weather_impact_above_30(heat_stress_runs, total_runs, avg_temp) ==
    IF total_runs = 0 THEN "minimal"
    ELSE IF 2 * heat_stress_runs > total_runs \/ avg_temp > 300
    THEN "severe"
    ELSE IF 10 * heat_stress_runs > 3 * total_runs \/ avg_temp > 250
    THEN "significant"
    ELSE IF 100 * heat_stress_runs > 15 * total_runs \/ avg_temp > 220
    THEN "moderate"
    ELSE "minimal"

\* _determine_weather_impact(heat_stress_runs, total_runs, avg_temp)
determine_weather_impact(heat_stress_runs, total_runs, avg_temp) ==
    IF total_runs = 0 THEN "minimal"
    ELSE IF 2 * heat_stress_runs > total_runs \/ avg_temp > 280
    THEN "severe"
    ELSE IF 10 * heat_stress_runs > 3 * total_runs \/ avg_temp > 250
    THEN "significant"
    ELSE IF 100 * heat_stress_runs > 15 * total_runs \/ avg_temp > 220
    THEN "moderate"
    ELSE "minimal"

\* _assess_heat_acclimation(heat_stress_runs, total_runs)
assess_heat_acclimation(heat_stress_runs, total_runs) ==
    IF total_runs = 0 THEN "none"
    ELSE IF 10 * heat_stress_runs > 4 * total_runs /\ heat_stress_runs >= 8
    THEN "well-acclimated"
    ELSE IF 100 * heat_stress_runs > 15 * total_runs
            /\ heat_stress_runs >= 4
    THEN "developing"
    ELSE "none"

\* _get_optimal_training_times(avg_temp): the first window of the list
get_optimal_training_times(avg_temp) ==
    IF avg_temp > 250 THEN "5:00-7:00 AM (coolest)"
    ELSE IF avg_temp > 200 THEN "6:00-8:00 AM (mild)"
    ELSE "10:00 AM-4:00 PM (warmest)"

\* the average of a[key] over the activities that have a value for key,
\* or default
AverageOf(activities, key, default) ==
    IF CountOf(activities, key) = 0 THEN default
    ELSE Round(SumOf(activities, key), CountOf(activities, key))

\* WeatherContextAgent._create_fallback_analysis(activities)
weather_fallback(activities) ==
    [average_temperature       |->
         AverageOf(activities, "average_temperature", 150),
     average_humidity          |-> AverageOf(activities, "humidity", 600),
     heat_stress_runs          |-> 0,
     ideal_condition_runs      |-> 0,
     weather_impact_score      |-> "minimal",
     pace_degradation_estimate |-> 0,
     heat_acclimation_level    |-> "unknown",
     optimal_training_times    |-> "6:00-8:00 AM",
     total_activities_analyzed |-> 0]

\* the activities the lookup loop of analyze_weather_impact visits
LookedUp(activities) ==
    LET activities_with_location ==
            SelectSeq(activities,
                      LAMBDA a : /\ Get(a, "start_latitude") # 0
                                 /\ Get(a, "start_longitude") # 0)
        first_30 == SubSeq(activities_with_location, 1,
                           IF Len(activities_with_location) < 30
                           THEN Len(activities_with_location) ELSE 30)
    IN  SelectSeq(first_30, LAMBDA a : "activity_date" \in DOMAIN a)

\* weather_data: the conditions _fetch_historical_weather returned, the
\* "lookup" of an activity being the answer of the weather service for it
WeatherData(activities) ==
    LET found == SelectSeq(LookedUp(activities), LAMBDA a : a.lookup.found)
    IN  [i \in DOMAIN found |-> found[i].lookup]

\* whether analyze_weather_impact(activities) ends with an exception: the
\* one _fetch_historical_weather let through, or the TypeError of
\* "sum(w.temperature_celsius ...)" over conditions that hold None
analyze_weather_impact_raises(activities) ==
    \E i \in DOMAIN LookedUp(activities) :
        \/ "raises" \in DOMAIN LookedUp(activities)[i].lookup
        \/ "null" \in DOMAIN LookedUp(activities)[i].lookup

\* analyze_weather_impact(activities): the numeric and categorical fields
\* of the WeatherImpactAnalysis it returns, when it returns
analyze_weather_impact(activities) ==
    LET weather_data == WeatherData(activities)
        n == Len(weather_data)
        avg_temp == Round(SumOf(weather_data, "temperature_celsius"), n)
        avg_humidity == Round(SumOf(weather_data, "humidity_percent"), n)
        heat_stress_runs ==
            Cardinality({i \in DOMAIN weather_data :
                \/ weather_data[i].temperature_celsius > HEAT_STRESS_TEMP
                \/ weather_data[i].humidity_percent > HIGH_HUMIDITY})
        ideal_condition_runs ==
            Cardinality({i \in DOMAIN weather_data :
                /\ IDEAL_TEMP_LOW <= weather_data[i].temperature_celsius
                /\ weather_data[i].temperature_celsius <= IDEAL_TEMP_HIGH})
    IN  IF n = 0 THEN weather_fallback(activities)
        ELSE [average_temperature       |-> avg_temp,
              average_humidity          |-> avg_humidity,
              heat_stress_runs          |-> heat_stress_runs,
              ideal_condition_runs      |-> ideal_condition_runs,
              weather_impact_score      |->
                  determine_weather_impact(heat_stress_runs, n, avg_temp),
              pace_degradation_estimate |->
                  estimate_pace_degradation(
                      avg_temp, avg_humidity,
                      calculate_heat_index(avg_temp, avg_humidity)),
              heat_acclimation_level    |->
                  assess_heat_acclimation(heat_stress_runs, n),
              optimal_training_times    |->
                  get_optimal_training_times(avg_temp),
              total_activities_analyzed |-> n]

(***************************************************************************)
(* The calls of WeatherContextAgent under analysis                         *)
(***************************************************************************)
\* total_runs handed to _determine_weather_impact
MaxRuns == 20

\* average temperatures around each threshold of _determine_weather_impact
AvgTempSamples == {150, 220, 221, 250, 251, 280, 281, 300}

\* how _fetch_historical_weather ends for an activity:
\*   found = FALSE      it returns None: the request failed with an
\*                      httpx.HTTPError, the body was no JSON, a key or the
\*                      hour was missing
\*   found = TRUE       it returns the conditions of the hour
\*   null               the service answered with null values for the hour
\*                      (no data yet): the conditions returned hold None
\*   raises             the payload has another shape ("temperature_2m":
\*                      null, a JSON list): the TypeError or AttributeError
\*                      is not among the exceptions the method catches
Lookups ==
    {[found |-> FALSE]}
    \cup {[found |-> TRUE, temperature_celsius |-> c[1],
           humidity_percent |-> c[2]] :
             c \in {<<300, 800>>, <<150, 500>>, <<260, 600>>}}
    \cup {[found |-> TRUE, null |-> TRUE],
          [found |-> FALSE, raises |-> TRUE]}

\* activities with and without a start position, with and without embedded
\* temperature and humidity; one without a position is never looked up
WeatherActivities ==
    {[activity_date       |-> 0,
      start_latitude      |-> 407,
      start_longitude     |-> -740,
      average_temperature |-> e[1],
      humidity            |-> e[2],
      lookup              |-> l] :
        e \in {<<0, 0>>, <<300, 800>>}, l \in Lookups}
    \cup
    {[activity_date       |-> 0,
      start_latitude      |-> 0,
      start_longitude     |-> 0,
      average_temperature |-> e[1],
      humidity            |-> e[2],
      lookup              |-> [found |-> FALSE]] :
        e \in {<<0, 0>>, <<300, 800>>, <<100, 0>>}}

WeatherActivityLists ==
    UNION {[1..n -> WeatherActivities] : n \in 0..MaxActivities}

\* temperatures and humidities (tenths) and heat indices (hundredths)
\* around the thresholds of _estimate_pace_degradation; the humidities
\* are even, so that no sum lies halfway between two tenths, where the
\* binary representation of the floating-point sum decides the rounding
TemperatureSamples == {0, 249, 250, 251, 300}

HumiditySamples == {0, 698, 700, 702, 800}

HeatIndexSamples == {0, 2999, 3000, 3001, 3767}

WeatherInit ==
    /\ Constructed
    /\ wf = "enhanced"
    /\ today = 0
    /\ \/ \E l \in WeatherActivityLists :
             call = [fn |-> "analyze_weather_impact", done |-> FALSE,
                     activities |-> l]
       \/ \E total \in 0..MaxRuns : \E heat \in 0..total :
          \E t \in AvgTempSamples :
             call = [fn |-> "_determine_weather_impact", done |-> FALSE,
                     heat_stress_runs |-> heat, total_runs |-> total,
                     avg_temp |-> t]
       \/ \E t \in TemperatureSamples : \E h \in HumiditySamples :
          \E hi \in HeatIndexSamples :
             call = [fn |-> "_estimate_pace_degradation", done |-> FALSE,
                     temperature |-> t, humidity |-> h, heat_index |-> hi]

AnalyzeWeatherImpact ==
    /\ call.fn = "analyze_weather_impact"
    /\ ~call.done
    /\ "raised" \notin DOMAIN call
    /\ call' = IF analyze_weather_impact_raises(call.activities)
               THEN Raised(call)
               ELSE Returned(call, analyze_weather_impact(call.activities))
    /\ UNCHANGED today
    /\ UNCHANGED workflowVars

DetermineWeatherImpact ==
    /\ call.fn = "_determine_weather_impact"
    /\ ~call.done
    /\ call' = Returned(call,
                        determine_weather_impact(call.heat_stress_runs,
                                                 call.total_runs,
                                                 call.avg_temp))
    /\ UNCHANGED today
    /\ UNCHANGED workflowVars

EstimatePaceDegradation ==
    /\ call.fn = "_estimate_pace_degradation"
    /\ ~call.done
    /\ call' = Returned(call,
                        estimate_pace_degradation(call.temperature,
                                                  call.humidity,
                                                  call.heat_index))
    /\ UNCHANGED today
    /\ UNCHANGED workflowVars

WeatherNext ==
    \/ AnalyzeWeatherImpact
    \/ DetermineWeatherImpact
    \/ EstimatePaceDegradation

WeatherSpec == WeatherInit /\ [][WeatherNext]_vars

(***************************************************************************)
(* GET /comprehensive-analysis (api/routes/quick_wins.py)                  *)
(*                                                                         *)
(* The handler calls the three single-analysis handlers as coroutines and  *)
(* awaits them with asyncio.gather.  A coroutine is "pending" until the    *)
(* event loop first runs it, "running" while it awaits the database or     *)
(* its agent, and ends "returned" with its response or "raised" with an    *)
(* HTTPException: 404 when the athlete has no activities, 500 for any      *)
(* other exception, which the single-analysis handler wraps.               *)
(***************************************************************************)
\* the keys of response["analyses"], in the order the priority
\* recommendations are taken from them
AnalysisNames == <<"training_load", "vo2max_estimate", "weather_context">>

\* the number of recommendations an analysis can carry
MaxRecommendations == 3

\* at most this many recommendations of an analysis enter
\* priority_recommendations: [:2] of training_load, [:1] of the others
Share(name) == IF name = "training_load" THEN 2 ELSE 1

\* s[:k]
Take(s, k) == SubSeq(s, 1, IF Len(s) < k THEN Len(s) ELSE k)

\* the recommendations of analysis name, n of them
Recommendations(name, n) == [i \in 1..n |-> <<name, i>>]

PendingTask == [state |-> "pending", recommendations |-> 0, status |-> 0]

\* asyncio.gather(...) without return_exceptions
return_exceptions_off == FALSE

\* asyncio.gather(..., return_exceptions=True)
return_exceptions == TRUE

\* "not isinstance(result, Exception)": HTTPException is an Exception
Succeeded(task) == task.state = "returned"

\* response["analyses"]: the "analysis" / "estimate" part of every
\* result that is not an exception
Analyses(tasks) ==
    [name \in {n \in DOMAIN tasks : Succeeded(tasks[n])} |->
        [recommendations |->
            Recommendations(name, tasks[name].recommendations)]]

RECURSIVE AllRecommendations(_, _)
\* all_recommendations, from the analyses names[i..] present in analyses
AllRecommendations(analyses, names) ==
    IF names = <<>> THEN <<>>
    ELSE (IF Head(names) \in DOMAIN analyses
          THEN Take(analyses[Head(names)].recommendations,
                    Share(Head(names)))
          ELSE <<>>)
         \o AllRecommendations(analyses, Tail(names))

\* the response of get_comprehensive_analysis
ComprehensiveResponse(tasks) ==
    [success                  |-> TRUE,
     analyses                 |-> Analyses(tasks),
     priority_recommendations |->
         Take(AllRecommendations(Analyses(tasks), AnalysisNames), 5)]

ComprehensiveInit ==
    /\ Constructed
    /\ wf = "enhanced"
    /\ today = 0
    /\ call = [fn |-> "get_comprehensive_analysis", done |-> FALSE,
               tasks |-> [name \in {"training_load", "vo2max_estimate",
                                    "weather_context"} |-> PendingTask]]

\* the handler is still awaiting gather
Gathering ==
    /\ call.fn = "get_comprehensive_analysis"
    /\ ~call.done
    /\ "raised" \notin DOMAIN call

\* the event loop runs a coroutine for the first time, up to its first
\* await
StartTask(name) ==
    /\ Gathering
    /\ call.tasks[name].state = "pending"
    /\ call' = [call EXCEPT !.tasks[name].state = "running"]
    /\ UNCHANGED today
    /\ UNCHANGED workflowVars

\* a single-analysis handler returns its response, with n recommendations
ReturnTask(name, n) ==
    /\ Gathering
    /\ call.tasks[name].state = "running"
    /\ call' = [call EXCEPT !.tasks[name] =
                   [state |-> "returned", recommendations |-> n,
                    status |-> 200]]
    /\ UNCHANGED today
    /\ UNCHANGED workflowVars

\* a single-analysis handler raises HTTPException(status)
RaiseTask(name, status) ==
    /\ Gathering
    /\ call.tasks[name].state = "running"
    /\ call' = [call EXCEPT !.tasks[name] =
                   [state |-> "raised", recommendations |-> 0,
                    status |-> status]]
    /\ UNCHANGED today
    /\ UNCHANGED workflowVars

\* gather is over: with return_exceptions it waits for all three and hands
\* the exceptions over as results; without, the first exception leaves the
\* await and the handler's except clause raises HTTPException(500)
GetComprehensiveAnalysis ==
    /\ Gathering
    /\ IF return_exceptions
       THEN /\ \A name \in DOMAIN call.tasks :
                  call.tasks[name].state \in {"returned", "raised"}
            /\ call' = Returned(call, ComprehensiveResponse(call.tasks))
       ELSE \/ /\ \E name \in DOMAIN call.tasks :
                     call.tasks[name].state = "raised"
               /\ call' = Raised(call)
            \/ /\ \A name \in DOMAIN call.tasks :
                     call.tasks[name].state = "returned"
               /\ call' = Returned(call, ComprehensiveResponse(call.tasks))
    /\ UNCHANGED today
    /\ UNCHANGED workflowVars

ComprehensiveNext ==
    \/ \E name \in DOMAIN call.tasks : StartTask(name)
    \/ \E name \in DOMAIN call.tasks :
          \E n \in 0..MaxRecommendations : ReturnTask(name, n)
    \/ \E name \in DOMAIN call.tasks :
          \E status \in {404, 500} : RaiseTask(name, status)
    \/ GetComprehensiveAnalysis

ComprehensiveSpec == ComprehensiveInit /\ [][ComprehensiveNext]_vars

(***************************************************************************)
(* Vocabulary of the properties                                            *)
(***************************************************************************)
Siblings ==
    {"weather_context", "vo2max_estimation", "training_load",
     "goal_assessment"}

RunEnded == phase \in {"returned", "raised"}

\* the value the result key of node n holds once n, having ended with o,
\* has returned
StageResult(w, n, o) ==
    IF o = "raised" THEN FailureState(w, n, InitialState(w))[ResultKey(w, n)]
    ELSE IF n = "final_synthesis" THEN "ref"
    ELSE SuccessState(w, n, o, InitialState(w))[ResultKey(w, n)]

\* node n has returned and the superstep it ran in has been merged into
\* the shared state, which holds its result
Published(n) ==
    /\ invoked[n] >= 1
    /\ pc[n] = "idle"
    /\ chan[ResultKey(wf, n)] = StageResult(wf, n, outcome[n])

\* the number of entries of the errors list that name step n
ErrorEntries(es, n) == Cardinality({i \in DOMAIN es : es[i].step = n})

(***************************************************************************)
(* C1  Failure isolation: when a stage function has raised, the failure is *)
(* recorded for that stage, every stage of the graph still executes and    *)
(* the run reaches final synthesis.                                        *)
(***************************************************************************)
C1_FailureIsolation ==
    (RunEnded /\ \E n \in Nodes(wf) : outcome[n] = "raised")
        => /\ \A n \in Nodes(wf) : invoked[n] >= 1
           /\ final_analysis.built

(***************************************************************************)
(* C2  Dependency ordering: a stage function is invoked only after every   *)
(* declared dependency has returned and its result is published; in the    *)
(* runner workflow the four parallel analyses wait for                     *)
(* performance_analysis, pace_optimization for all four of them,           *)
(* workout_planning for pace_optimization and final_synthesis for          *)
(* workout_planning.                                                       *)
(***************************************************************************)
C2_DependencyOrdering ==
    /\ \A n \in Nodes(wf) :
          invoked[n] >= 1 => \A m \in DependsOn(wf, n) : Published(m)
    /\ wf = "runner" =>
          /\ \A s \in Siblings :
                invoked[s] >= 1 => Published("performance_analysis")
          /\ invoked["pace_optimization"] >= 1 =>
                \A s \in Siblings : Published(s)
          /\ invoked["workout_planning"] >= 1 =>
                Published("pace_optimization")
          /\ invoked["final_synthesis"] >= 1 =>
                Published("workout_planning")

\* two of the parallel analyses are in flight at once, after a failed
\* performance_analysis was published
C2_Witness ==
    /\ wf = "runner"
    /\ outcome["performance_analysis"] = "raised"
    /\ pc["weather_context"] = "running"
    /\ pc["goal_assessment"] = "running"

(***************************************************************************)
(* C3  Concurrent siblings merge: once the four parallel analyses of the   *)
(* runner workflow have all returned and their superstep is over, the      *)
(* shared state holds the result of each of them, no result conflicted     *)
(* with another and pace_optimization is launched.                         *)
(***************************************************************************)
C3_SiblingsMerge ==
    (/\ wf = "runner"
     /\ \A s \in Siblings : outcome[s] # "none"
     /\ ~(phase = "running" /\ \A s \in Siblings : pc[s] = "done"))
        => /\ phase # "raised"
           /\ \A s \in Siblings :
                 chan[ResultKey(wf, s)] = StageResult(wf, s, outcome[s])
           /\ \/ pc["pace_optimization"] # "idle"
              \/ invoked["pace_optimization"] >= 1

(***************************************************************************)
(* C4  analyze_runner never raises to its caller, whichever stages fail.   *)
(***************************************************************************)
C4_NeverRaises == phase # "raised"

(***************************************************************************)
(* C5  Every stage failure of a run, a raised stage function or a failed   *)
(* collaborator call alike, has exactly one entry in the error list of the *)
(* final report, and a stage that succeeded has none.                      *)
(***************************************************************************)
C5_AllFailuresListed ==
    result.present =>
        \A n \in Nodes(wf) :
            ErrorEntries(result.errors, n) =
                IF outcome[n] \in {"raised", "fallback"} THEN 1 ELSE 0

\* C5 as amended: in the report of the enhanced workflow every stage whose
\* function raised has exactly one entry in errors and no other stage has
\* one; a collaborator failure swallowed below the node is not listed.
C5_RaisedStagesListed ==
    (wf = "enhanced" /\ result.present) =>
        \A n \in Nodes(wf) :
            ErrorEntries(result.errors, n) =
                IF outcome[n] = "raised" THEN 1 ELSE 0

\* a report of a run in which one stage raised and another one took the
\* success path on a swallowed collaborator failure
C5_Witness ==
    /\ wf = "enhanced"
    /\ result.present
    /\ outcome["workout_planning"] = "raised"
    /\ outcome["goal_assessment"] = "fallback"
    /\ Len(result.errors) = 1

(***************************************************************************)
(* C6  Every run ends with every declared stage invoked exactly once and   *)
(* its result present.                                                     *)
(***************************************************************************)
C6_EveryStageOnce ==
    RunEnded => \A n \in Nodes(wf) : invoked[n] = 1 /\ outcome[n] # "none"

(***************************************************************************)
(* C7  Write-once per key: the result key of a stage is written by that    *)
(* stage only.                                                             *)
(***************************************************************************)
C7_WriteOnlyOwnKey ==
    \A n \in Nodes(wf) : \A m \in Nodes(wf) \ {n} :
        ResultKey(wf, m) \notin DOMAIN writes[n]

(***************************************************************************)
(* C8  Overall deadline: once the deadline of the run has passed no new    *)
(* stage is launched.                                                      *)
(***************************************************************************)
C8_NoLaunchAfterDeadline ==
    \A n \in Nodes(wf) : pc[n] = "running" => start_time[n] <= Deadline

\* C8 as amended: the run has no deadline.  A scheduled stage can be
\* launched whatever the clock says, and a failure value in the shared
\* state always comes from the stage's own function having raised, never
\* from a synthetic timeout.
C8_NoDeadline ==
    /\ \A n \in Nodes(wf) :
          (phase = "running" /\ n \in active /\ pc[n] = "pending")
              => ENABLED StartNode(n)
    /\ \A n \in Nodes(wf) :
          chan[ResultKey(wf, n)] = "error" => outcome[n] = "raised"

\* a stage was launched after the deadline had passed
C8_Witness ==
    \E n \in Nodes(wf) : pc[n] = "running" /\ start_time[n] > Deadline

(***************************************************************************)
(* C10  At the end of a run a duration is recorded for every stage that    *)
(* ran, failed stages included.                                            *)
(***************************************************************************)
C10_DurationForEveryStage ==
    result.present =>
        \A n \in Nodes(wf) :
            outcome[n] # "none" => n \in DOMAIN result.processing_times

(***************************************************************************)
(* Vocabulary of the estimator properties                                  *)
(***************************************************************************)
IsCall(fn) == call.fn = fn /\ call.done

RiskRank(level) ==
    CASE level = "low" -> 0
      [] level = "moderate" -> 1
      [] level = "high" -> 2
      [] level = "very_high" -> 3

\* the fields of a TrainingLoadAnalysis that make up its metrics
Metrics(analysis) ==
    [k \in DOMAIN analysis \ {"analysis_date"} |-> analysis[k]]

(***************************************************************************)
(* C11  Determinism: a second run of analyze_training_load on the same     *)
(* activity list returns the metrics of the first run, whatever the        *)
(* wall-clock time of either run.                                          *)
(***************************************************************************)
C11_Determinism ==
    [][(IsCall("analyze_training_load") /\ AnalyzeTrainingLoad)
          => Metrics(call'.ret) = Metrics(call.ret)]_vars

(***************************************************************************)
(* C12  ACWR: with a chronic load of 0 the ratio is 0 and nothing is       *)
(* divided; otherwise the ratio is the acute load divided by the chronic   *)
(* load.                                                                   *)
(***************************************************************************)
C12_AcwrIsQuotient ==
    IsCall("_calculate_acwr") =>
        IF call.chronic_load = 0 THEN call.ret = 0
        ELSE call.ret * call.chronic_load = call.acute_load * 100

\* C12 as the code has it: with a chronic load of 0 the ratio is 0;
\* otherwise it is the quotient rounded to two decimals, that is, the
\* hundredth nearest to acute / chronic
C12_AcwrIsRoundedQuotient ==
    IsCall("_calculate_acwr") =>
        IF call.chronic_load = 0 THEN call.ret = 0
        ELSE /\ 2 * (call.ret * call.chronic_load - call.acute_load * 100)
                    <= call.chronic_load
             /\ 2 * (call.acute_load * 100 - call.ret * call.chronic_load)
                    <= call.chronic_load

\* a quotient that is not a whole number of hundredths has been rounded up
C12_Witness ==
    /\ IsCall("_calculate_acwr")
    /\ call.chronic_load # 0
    /\ call.ret * call.chronic_load > call.acute_load * 100

(***************************************************************************)
(* C13  Recovery status follows strict first-match precedence over         *)
(* (ACWR, weeklyTSS): ACWR > 1.8 Overtrained; else ACWR > 1.5 and          *)
(* weeklyTSS > 500 Overreaching; else ACWR > 1.3 or weeklyTSS > 700        *)
(* Fatigued; else ACWR < 0.8 or weeklyTSS < 200 WellRecovered; else        *)
(* Adequate.  Every pair gets exactly one status.                          *)
(***************************************************************************)
C13_RecoveryPrecedence ==
    IsCall("_determine_recovery_status") =>
        LET r == call.acwr
            t == call.weekly_tss
        IN  /\ call.ret \in {"overtrained", "overreaching", "fatigued",
                             "well_recovered", "adequate"}
            /\ (call.ret = "overtrained") = (r > 180)
            /\ (call.ret = "overreaching") =
                  (~(r > 180) /\ r > 150 /\ t > 5000)
            /\ (call.ret = "fatigued") =
                  (~(r > 180) /\ ~(r > 150 /\ t > 5000)
                   /\ (r > 130 \/ t > 7000))
            /\ (call.ret = "well_recovered") =
                  (~(r > 130) /\ ~(t > 7000) /\ (r < 80 \/ t < 2000))
            /\ (call.ret = "adequate") =
                  (r >= 80 /\ r <= 130 /\ t >= 2000 /\ t <= 7000)

\* a pair that matches both the overreaching and the fatigue test
C13_Witness ==
    /\ IsCall("_determine_recovery_status")
    /\ call.acwr > 150 /\ call.acwr <= 180
    /\ call.weekly_tss > 7000
    /\ call.ret = "overreaching"

(***************************************************************************)
(* C14  Injury risk is a total, non-decreasing function of ACWR: Low up to *)
(* and including 1.3, Moderate in (1.3, 1.5], High in (1.5, 1.8],          *)
(* VeryHigh above 1.8.                                                     *)
(***************************************************************************)
C14_InjuryRiskBands ==
    IsCall("_assess_injury_risk") =>
        /\ call.ret = (IF call.acwr <= 130 THEN "low"
                       ELSE IF call.acwr <= 150 THEN "moderate"
                       ELSE IF call.acwr <= 180 THEN "high"
                       ELSE "very_high")
        /\ \A lower \in 0..call.acwr :
              RiskRank(assess_injury_risk(lower)) <= RiskRank(call.ret)

\* the risk of a ratio of exactly 1.3 was assessed
C14_Witness ==
    /\ IsCall("_assess_injury_risk")
    /\ call.acwr = 130
    /\ call.ret = "low"

(***************************************************************************)
(* C15  28 consecutive daily runs of 8 km with avgHR 150 and maxHR 185     *)
(* give acuteLoad7d > 0, chronicLoad28d > 0, ACWR within 1.0 +- 0.1 and    *)
(* recoveryStatus Adequate.                                                *)
(***************************************************************************)
C15_SteadyScenario ==
    (IsCall("analyze_training_load") /\ call.activities = DailyRuns(28)) =>
        /\ call.ret.acute_load > 0
        /\ call.ret.chronic_load > 0
        /\ call.ret.acwr >= 90 /\ call.ret.acwr <= 110
        /\ call.ret.recovery_status = "adequate"

(***************************************************************************)
(* C16  An empty activity list is not an error: analyze_training_load      *)
(* returns with acute load, chronic load, ACWR and weekly TSS all 0,       *)
(* recoveryStatus WellRecovered and injuryRisk Low.                        *)
(***************************************************************************)
C16_EmptyListFallback ==
    (call.fn = "analyze_training_load" /\ call.activities = <<>>) =>
        /\ ENABLED AnalyzeTrainingLoad
        /\ call.done =>
              /\ call.ret.acute_load = 0
              /\ call.ret.chronic_load = 0
              /\ call.ret.acwr = 0
              /\ call.ret.weekly_tss = 0
              /\ call.ret.recovery_status = "well_recovered"
              /\ call.ret.injury_risk_level = "low"

\* analyze_training_load has returned from a call with no activities
C16_Witness ==
    /\ IsCall("analyze_training_load")
    /\ call.activities = <<>>

(***************************************************************************)
(* C17  Whatever the distances, times, powers and heart rates of the       *)
(* activities, the reported VO2max lies in [20, 85]: every candidate       *)
(* estimate lies in [20, 85] and so does their weighted combination.       *)
(***************************************************************************)
C17_Vo2MaxBounded ==
    IsCall("estimate_vo2_max") =>
        /\ call.ret.vo2_max >= 2000
        /\ call.ret.vo2_max <= 8500
        /\ \A i \in DOMAIN call.ret.vo2_estimates :
              /\ call.ret.vo2_estimates[i] >= 2000
              /\ call.ret.vo2_estimates[i] <= 8500

\* an estimate was combined from a race candidate at the upper bound (5 km
\* in 2 s), a power candidate at the upper bound (1000000 W) and a
\* heart-rate candidate within the bounds
C17_Witness ==
    /\ IsCall("estimate_vo2_max")
    /\ Len(call.activities) = 1
    /\ call.activities[1].distance = 5000
    /\ call.activities[1].elapsed_time = 2
    /\ call.activities[1].average_watts = 1000000
    /\ call.activities[1].max_heart_rate = 185
    /\ Len(call.ret.vo2_estimates) = 3
    /\ call.ret.vo2_max > 4000

(***************************************************************************)
(* C18  Riegel prediction is strictly monotonic in the target distance:    *)
(* for a fixed known performance and target distances D2 < D3 the          *)
(* predicted time for D2 is strictly less than the one for D3.             *)
(***************************************************************************)
C18_RiegelStrictlyMonotonic ==
    IsCall("_predict_race_time_riegel") => call.ret.d2 < call.ret.d3

\* C18 as the code has it: the predicted time, a whole number of seconds,
\* never decreases as the target distance increases, and it strictly
\* increases for a known performance of 25 minutes or more and target
\* distances at least 5 km apart
C18_RiegelMonotonic ==
    IsCall("_predict_race_time_riegel") =>
        /\ call.ret.d2 <= call.ret.d3
        /\ (call.known_time >= 1500 /\ call.d3 - call.d2 >= 50000)
              => call.ret.d2 < call.ret.d3

\* two target distances one metre apart got the same predicted time
C18_Witness ==
    /\ IsCall("_predict_race_time_riegel")
    /\ call.known_time = 1500
    /\ call.d2 = 50000
    /\ call.d3 = 50010
    /\ call.ret.d2 = call.ret.d3

C20_FallbackUsesEmbeddedWeather ==
    (/\ IsCall("analyze_weather_impact")
     /\ WeatherData(call.activities) = <<>>
     /\ call.ret.average_temperature = 300
     /\ call.ret.average_humidity = 800
     /\ CountOf(call.activities, "average_temperature") > 0
     /\ CountOf(call.activities, "humidity") > 0) =>
        /\ call.ret.pace_degradation_estimate > 0
        /\ call.ret.weather_impact_score # "minimal"

(***************************************************************************)
(* Vocabulary of the report properties                                     *)
(***************************************************************************)
\* the number of entries of the list steps that name stage n
StepEntries(steps, n) ==
    Cardinality({i \in DOMAIN steps : steps[i] = n})

\* the stages a stage depends on, directly or through other stages
RECURSIVE Upstream(_, _)
Upstream(w, S) ==
    LET T == S \cup UNION {DependsOn(w, n) : n \in S}
    IN  IF T = S THEN S ELSE Upstream(w, T)

AllDependsOn(w, n) == Upstream(w, DependsOn(w, n))

(***************************************************************************)
(* C21  completed_steps of the final report lists every stage that         *)
(* succeeded exactly once and no stage that failed, every listed stage     *)
(* comes after all the listed stages it depends on, and final_synthesis    *)
(* is the last entry.                                                      *)
(***************************************************************************)
C21_CompletedSteps ==
    result.present =>
        LET steps == result.completed_steps
        IN  /\ \A n \in Nodes(wf) :
                  StepEntries(steps, n) =
                      IF outcome[n] \in {"ok", "fallback"} THEN 1 ELSE 0
            /\ \A i \in DOMAIN steps : steps[i] \in Nodes(wf)
            /\ \A i \in DOMAIN steps : \A j \in DOMAIN steps :
                  steps[i] \in AllDependsOn(wf, steps[j]) => i < j
            /\ Len(steps) >= 1
            /\ steps[Len(steps)] = "final_synthesis"

\* a report of a run in which one stage raised between two stages that
\* succeeded
C21_Witness ==
    /\ result.present
    /\ outcome["performance_analysis"] = "ok"
    /\ outcome["goal_assessment"] = "raised"
    /\ outcome["commitment_tracking"] = "ok"
    /\ Len(result.completed_steps) >= 3

(***************************************************************************)
(* C28  In the final report of a run, workflow_metadata's                  *)
(* total_processing_time equals the sum of all values of the               *)
(* processing_times map the same report carries.                           *)
(***************************************************************************)
C28_TotalIsSum ==
    result.present =>
        result.total_processing_time = SumValues(result.processing_times)

(***************************************************************************)
(* C30  In EnhancedRunnerAnalysisWorkflow the stages run strictly in the   *)
(* order load_data, performance_analysis, goal_assessment,                 *)
(* commitment_tracking, workout_planning, gear_analysis, final_synthesis,  *)
(* each exactly once, whichever stages fail; when load_data has failed,    *)
(* performance_analysis records a failure in errors instead of crashing    *)
(* and every later stage still runs.                                       *)
(***************************************************************************)
EnhancedOrder ==
    <<"load_data", "performance_analysis", "goal_assessment",
      "commitment_tracking", "workout_planning", "gear_analysis",
      "final_synthesis">>

C30_EnhancedStrictOrder ==
    wf = "enhanced" =>
        /\ phase # "raised"
        /\ \A i \in DOMAIN EnhancedOrder :
              LET n == EnhancedOrder[i]
              IN  /\ invoked[n] <= 1
                  /\ invoked[n] = 1 =>
                        \A j \in 1..(i - 1) :
                            LET m == EnhancedOrder[j]
                            IN  /\ invoked[m] = 1
                                /\ outcome[m] # "none"
                                /\ pc[m] = "idle"
                  /\ phase = "returned" =>
                        invoked[n] = 1 /\ outcome[n] # "none"
        /\ (outcome["load_data"] = "raised"
              /\ outcome["performance_analysis"] # "none")
              => /\ outcome["performance_analysis"] = "raised"
                 /\ ErrorEntries(errors, "performance_analysis") = 1
                 /\ ErrorEntries(errors, "load_data") = 1

\* a run whose load_data raised has returned its report, with later
\* stages having succeeded
C30_Witness ==
    /\ wf = "enhanced"
    /\ phase = "returned"
    /\ outcome["load_data"] = "raised"
    /\ ErrorEntries(result.errors, "performance_analysis") = 1
    /\ outcome["goal_assessment"] = "ok"
    /\ outcome["gear_analysis"] = "ok"

(***************************************************************************)
(* C22  The Training Stress Score of an activity is computed from its      *)
(* moving time: TSS = (movingSeconds / 3600) * IF^2 * 100 rounded to one   *)
(* decimal, so activities that differ only in elapsed time have the same   *)
(* TSS, and an activity with no usable duration has TSS 0.                 *)
(***************************************************************************)
C22_TssFromMovingTime ==
    IsCall("_calculate_tss") =>
        call.ret = Round(Get(call.activity, "moving_time")
                           * call.intensity_factor * call.intensity_factor,
                         36000)

(***************************************************************************)
(* C27  For every activity list with non-negative durations, the 7-day     *)
(* acute load never exceeds the 28-day chronic load, so the ACWR returned  *)
(* by analyze_training_load always lies in [0, 1].                         *)
(***************************************************************************)
C27_AcuteWithinChronic ==
    IsCall("analyze_training_load") =>
        /\ call.ret.acute_load >= 0
        /\ call.ret.acute_load <= call.ret.chronic_load
        /\ call.ret.acwr >= 0
        /\ call.ret.acwr <= 100

\* an analysis of runs inside and outside the 7-day window: the acute
\* load is positive and smaller than the chronic load
C27_Witness ==
    /\ IsCall("analyze_training_load")
    /\ Len(call.activities) = 2
    /\ call.ret.acute_load > 0
    /\ call.ret.acute_load < call.ret.chronic_load
    /\ call.ret.acwr > 0
    /\ call.ret.acwr < 100

(***************************************************************************)
(* C23  Every activity matched to a standard distance (within +-10% of 5,  *)
(* 10, 21.0975 or 42.195 km) is projected to VO2max with the intensity     *)
(* fraction of the matched distance (5K 0.95, 10K 0.92, Half 0.88,         *)
(* Marathon 0.85), also when it is shorter than the nominal distance.      *)
(***************************************************************************)
NominalFraction(race) ==
    CASE race = "5K" -> 95
      [] race = "10K" -> 92
      [] race = "Half Marathon" -> 88
      [] race = "Marathon" -> 85

C23_MatchedDistanceFraction ==
    IsCall("estimate_vo2_max") =>
        LET best == find_best_performances(call.activities)
        IN  \A i \in DOMAIN best :
                call.ret.vo2_estimates[i] =
                    Clamp(MulDiv(DanielsVo2((best[i].distance * 600)
                                               \div best[i].time),
                                 100, NominalFraction(best[i].race)))

(***************************************************************************)
(* C24  The data-quality score is min(1.0, 0.5 + 0.3 if a race estimate    *)
(* contributed + 0.25 if a power estimate contributed + 0.15 if a          *)
(* heart-rate estimate contributed + 0.15 for at least 20 activities or    *)
(* 0.10 for at least 10 + 0.05 if both power and heart-rate data are       *)
(* present), and it always lies in [0, 1].                                 *)
(***************************************************************************)
C24_DataQualityAdditive ==
    (IsCall("estimate_vo2_max") /\ call.ret.estimation_method # "default") =>
        LET estimates == Vo2Estimates(call.activities)
            methods == {estimates[i].method : i \in DOMAIN estimates}
            n == Len(call.activities)
            has_power == CountOf(call.activities, "average_watts") > 0
            has_hr == CountOf(call.activities, "average_heart_rate") > 0
            sum == 50
                   + (IF "race_performance" \in methods THEN 30 ELSE 0)
                   + (IF "power_data" \in methods THEN 25 ELSE 0)
                   + (IF "heart_rate" \in methods THEN 15 ELSE 0)
                   + (IF n >= 20 THEN 15 ELSE IF n >= 10 THEN 10 ELSE 0)
                   + (IF has_power /\ has_hr THEN 5 ELSE 0)
        IN  /\ call.ret.data_quality_score
                  = IF sum > 100 THEN 100 ELSE sum
            /\ call.ret.data_quality_score >= 0
            /\ call.ret.data_quality_score <= 100

(***************************************************************************)
(* C25  For every temperature, humidity and heat index, the pace           *)
(* degradation is the sum of three independent non-negative terms: 4 per   *)
(* degree of temperature above 25, 0.5 per point of humidity above 70 and  *)
(* 2 per degree of heat index above 30; it is never negative and is 0      *)
(* when temperature <= 25, humidity <= 70 and heat index <= 30.            *)
(***************************************************************************)
\* x when positive, else 0
Excess(x) == IF x > 0 THEN x ELSE 0

\* the sum of the three terms, in hundredths of a second per mile
DegradationTerms(c) ==
    40 * Excess(c.temperature - 250) + 5 * Excess(c.humidity - 700)
    + 2 * Excess(c.heat_index - 3000)

C25_DegradationIsSum ==
    IsCall("_estimate_pace_degradation") =>
        /\ 10 * call.ret = DegradationTerms(call)
        /\ call.ret >= 0
        /\ (call.temperature <= 250 /\ call.humidity <= 700
              /\ call.heat_index <= 3000) => call.ret = 0

\* C25 as amended: the pace degradation is the sum of the three terms
\* rounded to one decimal; it is never negative and is 0 when no
\* threshold is exceeded.
C25_DegradationIsRoundedSum ==
    IsCall("_estimate_pace_degradation") =>
        /\ call.ret = Round(DegradationTerms(call), 10)
        /\ call.ret >= 0
        /\ (call.temperature <= 250 /\ call.humidity <= 700
              /\ call.heat_index <= 3000) => call.ret = 0

\* a degradation all three terms contribute to and whose sum has a second
\* decimal
C25_Witness ==
    /\ IsCall("_estimate_pace_degradation")
    /\ call.temperature > 250
    /\ call.humidity > 700
    /\ call.heat_index > 3000
    /\ DegradationTerms(call) % 10 # 0
    /\ call.ret > 0

(***************************************************************************)
(* C26  A failing historical-weather lookup for one activity never aborts  *)
(* the weather analysis: for any sequence of per-activity lookup           *)
(* successes and failures analyze_weather_impact returns a result, the     *)
(* failed samples are left out of the averages and the heat-stress counts, *)
(* and when every lookup fails the fallback result is returned.            *)
(***************************************************************************)
\* the lookup of an activity gave usable conditions
Usable(a) == a.lookup.found /\ "null" \notin DOMAIN a.lookup

C26_LookupFailureTolerated ==
    call.fn = "analyze_weather_impact" =>
        LET samples == SelectSeq(LookedUp(call.activities), Usable)
        IN  /\ "raised" \notin DOMAIN call
            /\ call.done =>
                  IF samples = <<>>
                  THEN call.ret = weather_fallback(call.activities)
                  ELSE /\ call.ret.total_activities_analyzed = Len(samples)
                       /\ call.ret.heat_stress_runs <= Len(samples)
                       /\ call.ret.average_temperature =
                              Round(SumOf([i \in DOMAIN samples |->
                                              samples[i].lookup],
                                          "temperature_celsius"),
                                    Len(samples))

(***************************************************************************)
(* C29  The comprehensive-analysis operation runs the weather, VO2max and  *)
(* training-load analyses concurrently and isolates their failures: for    *)
(* every subset of the three that fails (a failure raised as an HTTP       *)
(* error included) the call still returns success, its analyses map holds  *)
(* exactly the analyses that did not fail, and priority_recommendations    *)
(* is drawn only from those.                                               *)
(***************************************************************************)
C29_FailuresIsolated ==
    call.fn = "get_comprehensive_analysis" =>
        /\ "raised" \notin DOMAIN call
        /\ \A name \in DOMAIN call.tasks :
              (~call.done /\ call.tasks[name].state = "pending")
                  => ENABLED StartTask(name)
        /\ call.done =>
              /\ call.ret.success
              /\ DOMAIN call.ret.analyses =
                    {name \in DOMAIN call.tasks :
                        call.tasks[name].state = "returned"}
              /\ \A name \in DOMAIN call.tasks :
                    call.tasks[name].state \in {"returned", "raised"}
              /\ \A i \in DOMAIN call.ret.priority_recommendations :
                    LET r == call.ret.priority_recommendations[i]
                    IN  /\ r[1] \in DOMAIN call.ret.analyses
                        /\ r[2] <= call.tasks[r[1]].recommendations

\* a response after one analysis failed with 404, one with 500 and the
\* third returned recommendations
C29_Witness ==
    /\ IsCall("get_comprehensive_analysis")
    /\ call.tasks["weather_context"].status = 404
    /\ call.tasks["vo2max_estimate"].status = 500
    /\ call.tasks["training_load"].state = "returned"
    /\ Len(call.ret.priority_recommendations) = 2

====
